---------------------------- MODULE Spec2Model ----------------------------
(***************************************************************************)
(* The notebook "DE 4.4 - Pipeline Event Logs": a Delta table holding the  *)
(* pipeline event log, a temporary view over it, the Spark configuration   *)
(* key 'latest_update.id', and the notebook's cells (load, latest update   *)
(* id, audit, direct lineage, lineage to depth 3, data quality metrics).   *)
(* A table is a sequence of rows; a nullable SQL value is the empty        *)
(* sequence (NULL) or a one-element sequence holding the value.            *)
(* The view is defined over the table's path and is evaluated by each      *)
(* query, so a query reads the records the table holds when it runs.       *)
(* A %sql cell refers to the key as '${latest_update.id}'; while the key   *)
(* is not set the reference stays as written and equals no update id.      *)
(***************************************************************************)
EXTENDS Integers, Sequences, FiniteSets, TLC

VARIABLES
    event_log,          \* the Delta table at {storage_location}/system/events
    view,               \* TRUE once the temp view event_log_raw is registered
    latest_update_id,   \* the Python variable of that name (NULL: not assigned)
    conf,               \* spark.conf 'latest_update.id' (NULL: key not set)
    out                 \* what the cell run last returned or raised

vars == <<event_log, view, latest_update_id, conf, out>>

-----------------------------------------------------------------------------
(* Bounds of the model.                                                    *)

MaxLog == 4           \* records the platform appends (Spec)
MaxEvents == 3        \* records of a log drawn for the latest-run query (SpecLatest)
MaxTime == 3          \* their timestamps are 1..MaxTime
MaxInputs == 2        \* input datasets listed by one flow_definition (SpecLineage)
MaxProgress == 2      \* flow_progress records of a drawn log (SpecQuality)
MaxExpectations == 2  \* elements of one expectations array (SpecQuality)

DatasetSeq == <<"A", "B", "C", "D">>
Datasets == {DatasetSeq[i] : i \in DOMAIN DatasetSeq}
UpdateIds == {"u1", "u2"}

-----------------------------------------------------------------------------
(* Nullable values and tables.                                             *)

NULL == <<>>
Some(v) == <<v>>
IsNull(x) == x = <<>>
Val(x) == x[1]

\* SQL equality in a join or filter condition: never true on NULL.
SqlEq(a, b) == ~IsNull(a) /\ ~IsNull(b) /\ Val(a) = Val(b)

Range(s) == {s[i] : i \in DOMAIN s}

RECURSIVE Flatten(_)
Flatten(ss) == IF ss = <<>> THEN <<>> ELSE Head(ss) \o Flatten(Tail(ss))

-----------------------------------------------------------------------------
(* The JSON text of details:flow_definition.input_datasets, as a sequence  *)
(* of tokens: brackets, commas, double quotes and the text between quotes. *)

Quote == "\""

RECURSIVE JoinTokens(_)
JoinTokens(ts) == IF ts = <<>> THEN "" ELSE Head(ts) \o JoinTokens(Tail(ts))

\* The first position >= j that holds a quote, or Len(text) + 1.
RECURSIVE RunEnd(_, _)
RunEnd(text, j) ==
    IF j > Len(text) \/ text[j] = Quote THEN j ELSE RunEnd(text, j + 1)

\* Java's find loop for (")([^"]+)("), collecting group 2, from position i.
RECURSIVE ExtractFrom(_, _)
ExtractFrom(text, i) ==
    IF i > Len(text) THEN <<>>
    ELSE LET j == RunEnd(text, i + 1)
         IN  IF text[i] = Quote /\ j > i + 1 /\ j <= Len(text)
             THEN <<JoinTokens(SubSeq(text, i + 1, j - 1))>> \o ExtractFrom(text, j + 1)
             ELSE ExtractFrom(text, i + 1)

\* The same loop for the greedy pattern (")(.+)("): one match, from the first
\* quote to the last.
LastQuote(text) ==
    LET qs == {k \in DOMAIN text : text[k] = Quote}
    IN  IF qs = {} THEN 0 ELSE CHOOSE k \in qs : \A m \in qs : m <= k

GreedyExtractAll(str) ==
    IF IsNull(str) THEN NULL
    ELSE LET text == Val(str)
             qs == {k \in DOMAIN text : text[k] = Quote}
             first == IF qs = {} THEN 0 ELSE CHOOSE k \in qs : \A m \in qs : k <= m
             last == LastQuote(text)
         IN  IF last > first + 1
             THEN Some(<<JoinTokens(SubSeq(text, first + 1, last - 1))>>)
             ELSE Some(<<>>)

\* regexp_extract_all(str, "(\")([^\"]+)(\")", 2): NULL on NULL.
RegexpExtractAll(str) ==
    IF IsNull(str) THEN NULL ELSE Some(ExtractFrom(Val(str), 1))

-----------------------------------------------------------------------------
(* The lineage query.                                                      *)

\* l1_raw without the condition on origin.update_id
L1RawAllUpdates(log, id) ==
    LET keep(r) == r.event_type = "flow_definition"
        sel == SelectSeq(log, keep)
    IN  [i \in DOMAIN sel |->
            [output_dataset |-> sel[i].details.output_dataset,
             input_datasets |-> sel[i].details.input_datasets]]

\* WHERE event_type = 'flow_definition' AND origin.update_id = '<id>'
L1Raw(log, id) ==
    LET keep(r) == r.event_type = "flow_definition" /\ SqlEq(r.update_id, Some(id))
        sel == SelectSeq(log, keep)
    IN  [i \in DOMAIN sel |->
            [output_dataset |-> sel[i].details.output_dataset,
             input_datasets |-> sel[i].details.input_datasets]]

L1ArrGreedy(raw) ==
    [i \in DOMAIN raw |->
        [output_dataset |-> raw[i].output_dataset,
         input_datasets |-> GreedyExtractAll(raw[i].input_datasets)]]

L1Arr(raw) ==
    [i \in DOMAIN raw |->
        [output_dataset |-> raw[i].output_dataset,
         input_datasets |-> RegexpExtractAll(raw[i].input_datasets)]]

\* explode: one row per array element, none for NULL or an empty array.
Explode(arr) == IF IsNull(arr) THEN <<>> ELSE Val(arr)

L1(arr) ==
    Flatten([i \in DOMAIN arr |->
        LET xs == Explode(arr[i].input_datasets)
        IN  [j \in DOMAIN xs |->
                [output_dataset |-> arr[i].output_dataset,
                 input_depth |-> 1,
                 input_dataset |-> Some(xs[j])]]])

\* left LEFT JOIN right ON left.input_dataset = right.output_dataset: every
\* matching pair, and a left row without a match once, beside NULL.
LeftJoin(left, right) ==
    Flatten([i \in DOMAIN left |->
        LET on(r) == SqlEq(left[i].input_dataset, r.output_dataset)
            ms == SelectSeq(right, on)
        IN  IF ms = <<>>
            THEN <<[l |-> left[i], r |-> NULL]>>
            ELSE [j \in DOMAIN ms |-> [l |-> left[i], r |-> Some(ms[j])]]])

\* SELECT l.output_dataset, depth, r.input_dataset ... WHERE r.input_dataset IS NOT NULL
JoinLevel(left, right, depth) ==
    LET joined == LeftJoin(left, right)
        rows == [i \in DOMAIN joined |->
                    [output_dataset |-> joined[i].l.output_dataset,
                     input_depth |-> depth,
                     input_dataset |-> IF IsNull(joined[i].r) THEN NULL
                                       ELSE Val(joined[i].r).input_dataset]]
        notnull(row) == ~IsNull(row.input_dataset)
    IN  SelectSeq(rows, notnull)

\* a level that drops what a shallower level of the same output already holds
ShallowestWins(level, shallower) ==
    LET fresh(row) == \A i \in DOMAIN shallower :
                         ~(/\ shallower[i].output_dataset = row.output_dataset
                           /\ shallower[i].input_dataset = row.input_dataset)
    IN  SelectSeq(level, fresh)

L2Shallowest(l1) == ShallowestWins(JoinLevel(l1, l1, 2), l1)

L2(l1) == JoinLevel(l1, l1, 2)

L3Shallowest(l1, l2) == ShallowestWins(JoinLevel(l2, l1, 3), l1 \o l2)

L3(l1, l2) == JoinLevel(l2, l1, 3)

\* COLLECT_SET(input_dataset) over the rows of one output and depth; NULLs
\* are ignored and no row gives the empty array.
CollectSet(rows, output, depth) ==
    {Val(rows[i].input_dataset) :
        i \in {k \in DOMAIN rows : /\ rows[k].output_dataset = output
                                   /\ rows[k].input_depth = depth
                                   /\ ~IsNull(rows[k].input_dataset)}}

\* PIVOT (COLLECT_SET(input_dataset) FOR input_depth IN (1 AS L1, 2 AS L2, 3 AS L3)):
\* one row per value of the remaining column, output_dataset.
Pivot(rows) ==
    {[output_dataset |-> o,
      L1 |-> CollectSet(rows, o, 1),
      L2 |-> CollectSet(rows, o, 2),
      L3 |-> CollectSet(rows, o, 3)] : o \in {rows[i].output_dataset : i \in DOMAIN rows}}

LineageResult(log, id) ==
    LET l1 == L1(L1Arr(L1Raw(log, id)))
        l2 == L2(l1)
        l3 == L3(l1, l2)
    IN  Pivot(l1 \o l2 \o l3)

\* The cell at lines 88-91: the direct predecessors, as stored.
DirectLineageResult(log, id) == Range(L1Raw(log, id))

-----------------------------------------------------------------------------
(* The data quality metrics query.                                         *)

\* from_json(text, "array<struct<name, dataset, passed_records, failed_records>>"):
\* NULL when the field is missing or its text does not parse as that array.
FromJson(text) ==
    IF IsNull(text) \/ ~Val(text).parsable THEN NULL ELSE Some(Val(text).items)

\* explode_outer: NULL or an empty array still gives one row, of NULLs
ExplodeOuter(arr) ==
    IF IsNull(arr) \/ Val(arr) = <<>>
    THEN <<[name |-> "", dataset |-> "", passed_records |-> 0, failed_records |-> 0]>>
    ELSE Val(arr)

\* SELECT explode(from_json(...)) row_expectations FROM event_log_raw
\* WHERE event_type = 'flow_progress' AND origin.update_id = '<id>'
RowExpectationsOuter(log, id) ==
    LET keep(r) == r.event_type = "flow_progress" /\ SqlEq(r.update_id, Some(id))
        sel == SelectSeq(log, keep)
    IN  Flatten([i \in DOMAIN sel |-> ExplodeOuter(FromJson(sel[i].details.expectations))])

RowExpectations(log, id) ==
    LET keep(r) == r.event_type = "flow_progress" /\ SqlEq(r.update_id, Some(id))
        sel == SelectSeq(log, keep)
    IN  Flatten([i \in DOMAIN sel |-> Explode(FromJson(sel[i].details.expectations))])

RECURSIVE SumPassed(_)
SumPassed(rows) ==
    IF rows = <<>> THEN 0 ELSE Head(rows).passed_records + SumPassed(Tail(rows))

RECURSIVE SumFailed(_)
SumFailed(rows) ==
    IF rows = <<>> THEN 0 ELSE Head(rows).failed_records + SumFailed(Tail(rows))

\* GROUP BY row_expectations.dataset only
GroupByDataset(rows) ==
    {LET in(r) == r.dataset = k.dataset
         grp == SelectSeq(rows, in)
     IN  [dataset |-> k.dataset,
          expectation |-> k.name,
          passing_records |-> SumPassed(grp),
          failing_records |-> SumFailed(grp)] :
        k \in {[dataset |-> rows[i].dataset, name |-> rows[i].name] : i \in DOMAIN rows}}

\* GROUP BY row_expectations.dataset, row_expectations.name with the two SUMs
GroupBy(rows) ==
    {LET in(r) == r.dataset = k.dataset /\ r.name = k.name
         grp == SelectSeq(rows, in)
     IN  [dataset |-> k.dataset,
          expectation |-> k.name,
          passing_records |-> SumPassed(grp),
          failing_records |-> SumFailed(grp)] :
        k \in {[dataset |-> rows[i].dataset, name |-> rows[i].name] : i \in DOMAIN rows}}

QualityResult(log, id) == GroupBy(RowExpectations(log, id))

-----------------------------------------------------------------------------
(* The other queries.                                                      *)

\* SELECT origin.update_id FROM event_log_raw WHERE event_type = 'create_update':
\* the rows ORDER BY timestamp DESC LIMIT 1 may return (any row of the
\* greatest timestamp), as indices into the log.
\* the same with ORDER BY timestamp, ascending
FirstAscending(log) ==
    {i \in DOMAIN log :
        /\ log[i].event_type = "create_update"
        /\ \A j \in DOMAIN log :
              log[j].event_type = "create_update" => log[i].timestamp <= log[j].timestamp}

LatestCreateUpdate(log) ==
    {i \in DOMAIN log :
        /\ log[i].event_type = "create_update"
        /\ \A j \in DOMAIN log :
              log[j].event_type = "create_update" => log[j].timestamp <= log[i].timestamp}

\* SELECT timestamp, details:user_action:action, details:user_action:user_name
\* FROM event_log_raw WHERE event_type = 'user_action'
AuditResult(log) ==
    LET keep(r) == r.event_type = "user_action"
        sel == SelectSeq(log, keep)
    IN  {[pos |-> i,
          timestamp |-> sel[i].timestamp,
          action |-> sel[i].details.action,
          user_name |-> sel[i].details.user_name] : i \in DOMAIN sel}

\* '${latest_update.id}' after Spark's variable substitution: the value of the
\* key, or the reference itself when the key is not set.
Substituted(c) == IF IsNull(c) THEN "${latest_update.id}" ELSE Val(c)

-----------------------------------------------------------------------------
(* The records the pipeline platform writes.                               *)

NoDetails ==
    [output_dataset |-> NULL, input_datasets |-> NULL,
     action |-> NULL, user_name |-> NULL, expectations |-> NULL]

CreateUpdate(ts, u) ==
    [event_type |-> "create_update", timestamp |-> ts, update_id |-> Some(u),
     details |-> NoDetails]

UserAction(ts) ==
    [event_type |-> "user_action", timestamp |-> ts, update_id |-> NULL,
     details |-> [NoDetails EXCEPT !.action = Some("START"), !.user_name = Some("student")]]

\* ins: NULL, or the JSON text of the array of input dataset names
FlowDefinition(ts, u, output, ins) ==
    [event_type |-> "flow_definition", timestamp |-> ts, update_id |-> Some(u),
     details |-> [NoDetails EXCEPT !.output_dataset = Some(output), !.input_datasets = ins]]

\* exps: NULL (no expectations field) or its text
FlowProgress(ts, u, exps) ==
    [event_type |-> "flow_progress", timestamp |-> ts, update_id |-> Some(u),
     details |-> [NoDetails EXCEPT !.expectations = exps]]

\* ["A","B"] as tokens
RECURSIVE JsonItems(_)
JsonItems(names) ==
    IF names = <<>> THEN <<>>
    ELSE <<Quote, Head(names), Quote>>
         \o (IF Tail(names) = <<>> THEN <<>> ELSE <<",">>)
         \o JsonItems(Tail(names))

JsonArray(names) == <<"[">> \o JsonItems(names) \o <<"]">>

\* The input_datasets texts: NULL, and the arrays of at most MaxInputs names.
InputTexts ==
    {NULL} \cup
    {LET in(d) == d \in S IN Some(JsonArray(SelectSeq(DatasetSeq, in))) :
        S \in {T \in SUBSET Datasets : Cardinality(T) <= MaxInputs}}

Expectation(d, n, p, f) ==
    [name |-> n, dataset |-> d, passed_records |-> p, failed_records |-> f]

Unparsable == Some([parsable |-> FALSE, items |-> <<>>])
ExpectationsText(items) == Some([parsable |-> TRUE, items |-> items])

-----------------------------------------------------------------------------
(* The cells of the notebook. Each writes what it returned or raised to    *)
(* out; a query on event_log_raw before the view is registered raises.     *)

\* rows: the rows returned, a set of records (with their positions where the
\* query keeps every row of its input)
NoError == ""
Output(cell, rows) == [cell |-> cell, error |-> NoError, rows |-> rows]
Raised(cell, error) == [cell |-> cell, error |-> error, rows |-> {}]

\* lines 31-36
LoadEventLog ==
    /\ view' = TRUE
    /\ out' = Output("load", {[pos |-> i, record |-> event_log[i]] : i \in DOMAIN event_log})
    /\ UNCHANGED <<event_log, latest_update_id, conf>>

\* lines 49-58: first() of an empty result is None, and None.update_id raises
\* before the assignment and before spark.conf.set.
SetLatestUpdateId ==
    IF ~view
    THEN /\ out' = Raised("latest", "AnalysisException")
         /\ UNCHANGED <<event_log, view, latest_update_id, conf>>
    ELSE IF LatestCreateUpdate(event_log) = {}
    THEN /\ out' = Raised("latest", "AttributeError")
         /\ UNCHANGED <<event_log, view, latest_update_id, conf>>
    ELSE \E i \in LatestCreateUpdate(event_log) :
            /\ latest_update_id' = event_log[i].update_id
            /\ conf' = event_log[i].update_id
            /\ out' = Output("latest", {[update_id |-> Val(event_log[i].update_id)]})
            /\ UNCHANGED <<event_log, view>>

\* lines 71-74
AuditQuery ==
    /\ out' = IF view THEN Output("audit", AuditResult(event_log))
                      ELSE Raised("audit", "AnalysisException")
    /\ UNCHANGED <<event_log, view, latest_update_id, conf>>

\* lines 87-91
DirectLineageQuery ==
    /\ out' = IF view THEN Output("direct", DirectLineageResult(event_log, Substituted(conf)))
                      ELSE Raised("direct", "AnalysisException")
    /\ UNCHANGED <<event_log, view, latest_update_id, conf>>

\* lines 95-148, dereferencing first() of the result as line 53 does
LineageQueryFirst ==
    /\ out' = IF ~view THEN Raised("lineage", "AnalysisException")
              ELSE IF LineageResult(event_log, Substituted(conf)) = {}
              THEN Raised("lineage", "AttributeError")
              ELSE Output("lineage", LineageResult(event_log, Substituted(conf)))
    /\ UNCHANGED <<event_log, view, latest_update_id, conf>>

\* lines 95-148
LineageQuery ==
    /\ out' = IF view THEN Output("lineage", LineageResult(event_log, Substituted(conf)))
                      ELSE Raised("lineage", "AnalysisException")
    /\ UNCHANGED <<event_log, view, latest_update_id, conf>>

\* lines 161-175, storing the id it finds newest before it filters by the key
QualityQueryRefreshing ==
    /\ conf' = IF view /\ LatestCreateUpdate(event_log) # {}
               THEN event_log[CHOOSE i \in LatestCreateUpdate(event_log) : TRUE].update_id
               ELSE conf
    /\ out' = IF view THEN Output("quality", QualityResult(event_log, Substituted(conf')))
                      ELSE Raised("quality", "AnalysisException")
    /\ UNCHANGED <<event_log, view, latest_update_id>>

\* lines 161-175
QualityQuery ==
    /\ out' = IF view THEN Output("quality", QualityResult(event_log, Substituted(conf)))
                      ELSE Raised("quality", "AnalysisException")
    /\ UNCHANGED <<event_log, view, latest_update_id, conf>>

-----------------------------------------------------------------------------
(* The notebook beside the platform that writes the log: the platform      *)
(* appends records stamped with increasing timestamps, and the cells are   *)
(* run in any order, any number of times.                                  *)

NoOutput == Output("", {})

\* What the platform may append at time ts: the start of an update, a user
\* action, a flow definition or a flow progress report of either update.
PlatformRecords(ts) ==
    {CreateUpdate(ts, u) : u \in UpdateIds}
    \cup {UserAction(ts)}
    \cup {FlowDefinition(ts, "u1", "B", Some(JsonArray(<<"A">>))),
          FlowDefinition(ts, "u2", "B", Some(JsonArray(<<"C">>)))}
    \cup {FlowProgress(ts, u, ExpectationsText(<<Expectation("orders", "valid_id", 10, 2)>>)) :
            u \in UpdateIds}

PlatformAppend ==
    /\ Len(event_log) < MaxLog
    /\ \E r \in PlatformRecords(Len(event_log) + 1) : event_log' = Append(event_log, r)
    /\ UNCHANGED <<view, latest_update_id, conf, out>>

Init ==
    /\ event_log = <<>>
    /\ view = FALSE
    /\ latest_update_id = NULL
    /\ conf = NULL
    /\ out = NoOutput

Next ==
    \/ PlatformAppend
    \/ LoadEventLog
    \/ SetLatestUpdateId
    \/ AuditQuery
    \/ DirectLineageQuery
    \/ LineageQuery
    \/ QualityQuery

Spec == Init /\ [][Next]_vars

-----------------------------------------------------------------------------
(* The latest-run query over every log of at most MaxEvents create_update  *)
(* and user_action records with timestamps in any order.                   *)

RECURSIVE SeqsUpTo(_, _)
SeqsUpTo(S, n) ==
    IF n = 0 THEN {<<>>}
    ELSE LET shorter == SeqsUpTo(S, n - 1)
         IN  shorter \cup {Append(q, x) : q \in shorter, x \in S}

LatestRecords ==
    {CreateUpdate(t, u) : t \in 1..MaxTime, u \in UpdateIds}
    \cup {UserAction(t) : t \in 1..MaxTime}

InitLatest ==
    /\ event_log \in SeqsUpTo(LatestRecords, MaxEvents)
    /\ view = FALSE
    /\ latest_update_id = NULL
    /\ conf = NULL
    /\ out = NoOutput

NextLatest ==
    \/ LoadEventLog
    \/ SetLatestUpdateId
    \/ DirectLineageQuery

SpecLatest == InitLatest /\ [][NextLatest]_vars

-----------------------------------------------------------------------------
(* The lineage queries over every set of flow definitions of one update:   *)
(* each dataset has no flow_definition record, or one whose input_datasets *)
(* is NULL or lists at most MaxInputs datasets. The view is registered and *)
(* the key holds the update's id.                                          *)

\* f[d]: <<>> (no record for d) or <<ins>> (a record with input_datasets ins)
LineageLog(f) ==
    <<CreateUpdate(1, "u1")>> \o
    Flatten([i \in DOMAIN DatasetSeq |->
        IF f[DatasetSeq[i]] = <<>> THEN <<>>
        ELSE <<FlowDefinition(2, "u1", DatasetSeq[i], f[DatasetSeq[i]][1])>>])

InitLineage ==
    /\ \E f \in [Datasets -> {<<>>} \cup {<<t>> : t \in InputTexts}] :
          event_log = LineageLog(f)
    /\ view = TRUE
    /\ latest_update_id = Some("u1")
    /\ conf = Some("u1")
    /\ out = NoOutput

NextLineage == LineageQuery

SpecLineage == InitLineage /\ [][NextLineage]_vars

-----------------------------------------------------------------------------
(* The quality query over every log of at most MaxProgress flow_progress   *)
(* records: of update u1 with no expectations field, an unparsable one or  *)
(* an array of at most MaxExpectations elements, or of update u2.          *)

Expectations ==
    {Expectation("orders", "valid_id", 10, 2),
     Expectation("orders", "valid_id", 5, 1),
     Expectation("orders", "valid_ts", 5, 1)}

QualityRecords ==
    {FlowProgress(2, "u1", t) :
        t \in {NULL, Unparsable}
              \cup {ExpectationsText(q) : q \in SeqsUpTo(Expectations, MaxExpectations)}}
    \cup {FlowProgress(2, "u2", ExpectationsText(<<Expectation("orders", "valid_id", 10, 2)>>))}

InitQuality ==
    /\ \E q \in SeqsUpTo(QualityRecords, MaxProgress) :
          event_log = <<CreateUpdate(1, "u1")>> \o q
    /\ view = TRUE
    /\ latest_update_id = Some("u1")
    /\ conf = Some("u1")
    /\ out = NoOutput

NextQuality == QualityQuery

SpecQuality == InitQuality /\ [][NextQuality]_vars

-----------------------------------------------------------------------------
(* What the claims speak of, computed from the log itself rather than by   *)
(* the queries: the lineage edges of an update and the walks along them.   *)

\* The names a JSON array text lists: its tokens that are no punctuation.
TextNames(text) == Range(text) \ {"[", "]", ",", Quote}

\* The edge x -> d: a flow_definition record of update u with output d lists x.
Edges(log, u) ==
    {e \in Datasets \X Datasets :
        \E i \in DOMAIN log :
            /\ log[i].event_type = "flow_definition"
            /\ log[i].update_id = Some(u)
            /\ log[i].details.output_dataset = Some(e[2])
            /\ ~IsNull(log[i].details.input_datasets)
            /\ e[1] \in TextNames(Val(log[i].details.input_datasets))}

Inputs(E, d) == {x \in Datasets : <<x, d>> \in E}

\* The datasets from which a walk of exactly k edges leads to r.
RECURSIVE Walk(_, _, _)
Walk(E, k, r) ==
    IF k = 1 THEN Inputs(E, r)
    ELSE UNION {Inputs(E, d) : d \in Walk(E, k - 1, r)}

\* The depth-k set the lineage result gives for r: empty when it has no row for r.
DepthSet(rows, r, k) ==
    UNION {CASE k = 1 -> row.L1 [] k = 2 -> row.L2 [] k = 3 -> row.L3 :
              row \in {x \in rows : x.output_dataset = Some(r)}}

Ran(cell) == out.cell = cell /\ out.error = NoError

\* The edges of the update the key names.
E1 == Edges(event_log, Substituted(conf))

\* For every dataset r, the datasets that walks of 1, 2 and 3 edges of E lead
\* from to r: Walk(E, k, r) for k in 1..3, tabulated from the table of inputs.
WalkTableOf(in) ==
    [r \in Datasets |->
        <<in[r],
          UNION {in[d] : d \in in[r]},
          UNION {in[d] : d \in UNION {in[c] : c \in in[r]}}>>]

WalkTable(E) ==
    CHOOSE w \in {WalkTableOf(in) : in \in {[d \in Datasets |-> Inputs(E, d)]}} : TRUE

\* DepthSet of the rows, tabulated.
DepthTable(rows) == [r \in Datasets |-> [k \in 1..3 |-> DepthSet(rows, r, k)]]

\* C1: after the lineage query, the depth-1 set of every root r is exactly the
\* set of direct inputs of r among the edges of the update, and the result has
\* rows for datasets only.
C1_DepthOneIsDirectInputs ==
    Ran("lineage") =>
        /\ \A r \in Datasets : DepthSet(out.rows, r, 1) = Inputs(E1, r)
        /\ \A row \in out.rows : row.output_dataset \in {Some(d) : d \in Datasets}

C1_Witness ==
    /\ Ran("lineage")
    /\ \E r \in Datasets : Cardinality(DepthSet(out.rows, r, 1)) = 2
    /\ \E r \in Datasets : Inputs(E1, r) = {}

\* C2: after the lineage query, for k in 2..3 the depth-k set of r is exactly the
\* set of direct inputs of the datasets of its depth-(k-1) set, and a dataset
\* that walks of two lengths j < k lead from to r is in the depth-j and the
\* depth-k set.
C2_DepthKKeepsShallowerDatasets ==
    Ran("lineage") =>
        \A w \in {WalkTable(E1)}, D \in {DepthTable(out.rows)} :
            \A r \in Datasets :
                /\ \A k \in 2..3 : D[r][k] = UNION {w[d][1] : d \in D[r][k - 1]}
                /\ \A j \in 1..3, k \in 1..3 :
                      j < k => \A x \in w[r][j] \cap w[r][k] :
                                  x \in D[r][j] /\ x \in D[r][k]

\* a dataset at depth 2 and depth 3 of a root that lies on no cycle
C2_Witness ==
    /\ Ran("lineage")
    /\ \E r \in Datasets, x \in Datasets :
          /\ x \in DepthSet(out.rows, r, 2)
          /\ x \in DepthSet(out.rows, r, 3)
          /\ x \notin DepthSet(out.rows, r, 1)
          /\ \A k \in 1..3 : r \notin Walk(E1, k, r)

\* C3: the lineage query does not raise; a root that is the output of no edge has
\* an empty set at every depth, and an empty depth-k set is followed by empty
\* sets at every greater depth.
C3_EmptyDepthsNoError ==
    out.cell = "lineage" =>
        /\ out.error = NoError
        /\ \A w \in {WalkTable(E1)}, D \in {DepthTable(out.rows)} :
               \A r \in Datasets :
                   /\ w[r][1] = {} => \A k \in 1..3 : D[r][k] = {}
                   /\ \A k \in 1..2 : D[r][k] = {} => D[r][k + 1] = {}

C3_Witness ==
    /\ Ran("lineage")
    /\ \E r \in Datasets :
          Inputs(E1, r) = {} /\ \A k \in 1..3 : DepthSet(out.rows, r, k) = {}
    /\ \E r \in Datasets :
          DepthSet(out.rows, r, 1) # {} /\ DepthSet(out.rows, r, 2) = {}
    /\ \E r \in Datasets :
          DepthSet(out.rows, r, 2) # {} /\ DepthSet(out.rows, r, 3) = {}

\* C8: on any edge set, cyclic ones included, the lineage query returns sets of
\* datasets for the depths 1..3, and a dataset on a cycle of length p (one that
\* a walk of p edges leads from to itself) that is in the depth-k set of a root
\* is in its depth-(k+p) set when k + p <= 3.
C8_CycleReappears ==
    out.cell = "lineage" =>
        /\ out.error = NoError
        /\ \A w \in {WalkTable(E1)}, D \in {DepthTable(out.rows)} :
               \A r \in Datasets, k \in 1..3 :
                   /\ D[r][k] \subseteq Datasets
                   /\ \A p \in 1..(3 - k) :
                         \A x \in D[r][k] : x \in w[x][p] => x \in D[r][k + p]

\* a dataset on a cycle of length 2 and on none of length 1, at depths 1 and 3
C8_Witness ==
    /\ Ran("lineage")
    /\ \E r \in Datasets, x \in Datasets :
          /\ x \in Walk(E1, 2, x)
          /\ x \notin Walk(E1, 1, x)
          /\ x \in DepthSet(out.rows, r, 1)
          /\ x \notin DepthSet(out.rows, r, 2)
          /\ x \in DepthSet(out.rows, r, 3)

-----------------------------------------------------------------------------
(* The latest-run step.                                                    *)

IsCreateUpdate(r) == r.event_type = "create_update"
CreateUpdates(log) == {i \in DOMAIN log : IsCreateUpdate(log[i])}

\* C4: on a log with a create_update record, the latest-run step run on the view
\* returns, and stores, the update id of a create_update record whose timestamp
\* no create_update record exceeds, whatever the other records' timestamps.
C4_LatestIsMaxCreateUpdate ==
    (out.cell = "latest" /\ out.error # "AnalysisException"
        /\ CreateUpdates(event_log) # {}) =>
        /\ out.error = NoError
        /\ \E i \in CreateUpdates(event_log) :
              /\ \A j \in CreateUpdates(event_log) :
                    event_log[j].timestamp <= event_log[i].timestamp
              /\ out.rows = {[update_id |-> Val(event_log[i].update_id)]}
              /\ conf = event_log[i].update_id
              /\ latest_update_id = event_log[i].update_id

\* create_update records at t1 < t2 and a user_action after both
C4_Witness ==
    /\ Ran("latest")
    /\ out.rows = {[update_id |-> "u2"]}
    /\ \E i \in DOMAIN event_log, j \in DOMAIN event_log, k \in DOMAIN event_log :
          /\ event_log[i] = CreateUpdate(1, "u1")
          /\ event_log[j] = CreateUpdate(2, "u2")
          /\ event_log[k] = UserAction(3)

\* C5: on a log without a create_update record the latest-run step raises
\* NotFoundError, and no later query runs to a result with the id undefined.
C5_NotFoundError ==
    CreateUpdates(event_log) = {} =>
        /\ (out.cell = "latest" /\ out.error # "AnalysisException") =>
              out.error = "NotFoundError"
        /\ (out.cell = "direct" /\ IsNull(conf)) => out.error # NoError

-----------------------------------------------------------------------------
(* The quality aggregation.                                                *)

\* The array a flow_progress record of update u gives, and <<>> for every other
\* record and for a missing or unparsable expectations field.
ItemsOf(r, u) ==
    IF /\ r.event_type = "flow_progress"
       /\ r.update_id = Some(u)
       /\ ~IsNull(r.details.expectations)
       /\ Val(r.details.expectations).parsable
    THEN Val(r.details.expectations).items
    ELSE <<>>

\* The occurrences <<i, j>>: element j of the array of record i.
Occurrences(log, u) ==
    {o \in (DOMAIN log) \X (1..MaxExpectations + 1) : o[2] <= Len(ItemsOf(log[o[1]], u))}

Item(log, u, o) == ItemsOf(log[o[1]], u)[o[2]]

RECURSIVE SumOver(_, _, _, _)
SumOver(log, u, occ, passed) ==
    IF occ = {} THEN 0
    ELSE LET o == CHOOSE x \in occ : TRUE
         IN  (IF passed THEN Item(log, u, o).passed_records
                        ELSE Item(log, u, o).failed_records)
             + SumOver(log, u, occ \ {o}, passed)

IsBadProgress(r) ==
    /\ r.event_type = "flow_progress"
    /\ (IsNull(r.details.expectations) \/ ~Val(r.details.expectations).parsable)

\* The rows are exactly one row per (dataset, name) pair occurring in the arrays
\* of the flow_progress records of update u, each with the sums of
\* passed_records and failed_records over the pair's occurrences.
RowsAreSums(rows, log, u) ==
    \A occ \in {Occurrences(log, u)} :
        /\ \A o \in occ :
              \A same \in {{x \in occ : /\ Item(log, u, x).dataset = Item(log, u, o).dataset
                                       /\ Item(log, u, x).name = Item(log, u, o).name}} :
                 {row \in rows : /\ row.dataset = Item(log, u, o).dataset
                                 /\ row.expectation = Item(log, u, o).name}
                 = {[dataset |-> Item(log, u, o).dataset,
                     expectation |-> Item(log, u, o).name,
                     passing_records |-> SumOver(log, u, same, TRUE),
                     failing_records |-> SumOver(log, u, same, FALSE)]}
        /\ \A row \in rows :
              \E o \in occ : /\ row.dataset = Item(log, u, o).dataset
                             /\ row.expectation = Item(log, u, o).name

C7_BadRecordsSkipped ==
    out.cell = "quality" =>
        /\ out.error = NoError
        /\ LET good(r) == ~IsBadProgress(r)
           IN  out.rows = QualityResult(SelectSeq(event_log, good), Substituted(conf))

\* a record with an unparsable field beside one that gives rows
C7_Witness ==
    /\ Ran("quality")
    /\ out.rows # {}
    /\ \E i \in DOMAIN event_log :
          /\ event_log[i].event_type = "flow_progress"
          /\ event_log[i].details.expectations = Unparsable

-----------------------------------------------------------------------------
(* The notebook's state and the update the queries read.                   *)

QueryCells == {"latest", "audit", "direct", "lineage", "quality"}

\* C9 as stated: a query changes nothing but its own output.
C9_QueriesArePure ==
    [][(event_log' = event_log /\ out'.cell \in QueryCells) =>
          UNCHANGED <<event_log, view, latest_update_id, conf>>]_vars

\* C9, amended: no cell changes the event log; only the latest-run step, when it
\* succeeds, changes latest_update_id and the key 'latest_update.id', to the id
\* it returns; only the load cell changes the view; and the results of the
\* lineage and quality queries are those of the log and the key's value.
C9_OnlyLatestRunWritesTheKey ==
    [][/\ event_log' # event_log => UNCHANGED <<view, latest_update_id, conf, out>>
       /\ (conf' # conf \/ latest_update_id' # latest_update_id) =>
             /\ out'.cell = "latest"
             /\ out'.error = NoError
             /\ out'.rows = {[update_id |-> Val(conf')]}
             /\ latest_update_id' = conf'
       /\ view' # view => out'.cell = "load"
       /\ (event_log' = event_log /\ out'.error = NoError) =>
             /\ out'.cell = "lineage" =>
                   out'.rows = LineageResult(event_log, Substituted(conf))
             /\ out'.cell = "quality" =>
                   out'.rows = QualityResult(event_log, Substituted(conf))]_vars

\* the key was written by the latest-run step and a later query read it
C9_Witness ==
    /\ Ran("quality")
    /\ conf = Some("u2")
    /\ out.rows # {}

\* The lineage result holds, at every depth, the walks along the edges of update u.
LineageIsWalks(rows, log, u) ==
    \A w \in {WalkTable(Edges(log, u))} :
        \A r \in Datasets, k \in 1..3 : DepthSet(rows, r, k) = w[r][k]

=============================================================================
